---- MODULE Spec2Model ----
(***************************************************************************)
(* Voice-activity detection of WeBAD-ts: the VolumeMeter (volume-meter.ts) *)
(* that smooths the loudness of the audio blocks, and the AudioDetection   *)
(* polling state machine (audioDetection.ts) that classifies the meter's   *)
(* volume once per timer tick and dispatches the events.                   *)
(*                                                                         *)
(* Numbers.  Times are integers in a unit of 50 ms.  Volumes are fixed     *)
(* point integers (one unit is the resolution of the meter); a product or  *)
(* a quotient is truncated to that resolution, as a floating point result  *)
(* is rounded to its precision.  NaN is the one non-number a volume can    *)
(* be (0/0 of an empty block); every comparison with it is false.          *)
(*                                                                         *)
(* JavaScript runs a timer callback, an audio callback and a call of       *)
(* start()/stop() to completion, one at a time: each is one action.  A     *)
(* timer expires exactly when it is due, and the clock moves with the      *)
(* expiries only: a call of start() or stop() between two callbacks is     *)
(* taken at the instant of the callback before it.  Where the meter is     *)
(* followed alone (SpecMeter) the clock advances by itself instead.        *)
(***************************************************************************)
EXTENDS Integers, Sequences, FiniteSets, TLC

\* ------------------------------------------------------------------ bounds
\* an uninterrupted run is followed for MaxTicks timer callbacks
MaxTicks == 7
\* under arbitrary calls of start() and stop(): at most MaxTimers timers are
\* pending at a time, and MaxSchedTicks timer callbacks are followed
MaxTimers == 2
MaxSchedTicks == 3
\* the meter alone is followed until the clock shows MaxClock
MaxClock == 5

\* ------------------------------------------- audioDetectionConfig (defaults)
\* audioDetectionConfig.ts is imported by audioDetection.ts (lines 2-11) but
\* is not among the sources.  The values below keep the relations that the
\* documentation states for the defaults (the polling interval divides the
\* silence and the pre-recording time, MUTE < SILENCE < SIGNAL <
\* MIN_AVERAGE_SIGNAL_VOLUME) and are small enough to explore exhaustively.
SAMPLE_POLLING_MSECS == 2
MAX_INTERSPEECH_SILENCE_MSECS == 6
MIN_SIGNAL_DURATION == 5
PRE_RECORD_START_MSECS == 6
VOLUME_MUTE == 1
VOLUME_SILENCE == 2
VOLUME_SIGNAL == 3
MIN_AVERAGE_SIGNAL_VOLUME == 5

\* ------------------------------------------------------------- arithmetic
\* the result of 0/0, of Math.sqrt(NaN) and of Math.max(NaN, x)
NaN == -1

IsNaN(x) == x = NaN

\* JavaScript's <, > and >= on numbers: false as soon as one side is NaN
Lt(a, b) == ~IsNaN(a) /\ ~IsNaN(b) /\ a < b
Gt(a, b) == ~IsNaN(a) /\ ~IsNaN(b) /\ a > b

\* Math.round(a / b) for a >= 0, b > 0: the nearest integer, halves go up
MathRound(a, b) == (2 * a + b) \div (2 * b)

\* Math.sqrt on the fixed point grid
MathSqrt(x) == IF IsNaN(x) THEN NaN ELSE CHOOSE r \in 0..x : r * r <= x /\ (r + 1) * (r + 1) > x

\* Math.max(a, b)
MathMax(a, b) == IF IsNaN(a) \/ IsNaN(b) THEN NaN ELSE IF a >= b THEN a ELSE b

\* a / b of two numbers, b an integer count: 0/0 is NaN
Divide(a, b) == IF IsNaN(a) THEN NaN ELSE IF b = 0 THEN NaN ELSE a \div b

RECURSIVE SumSeq(_)
SumSeq(s) == IF s = <<>> THEN 0 ELSE Head(s) + SumSeq(Tail(s))

\* utils.average: the mean of a list (NaN for the empty list)
average(list) == Divide(SumSeq(list), Len(list))

\* ------------------------------------------------------------------ state
VARIABLES
  meter,     \* the VolumeMeter: its averaging factor and its volume
  ad,        \* the AudioDetection instance: its configuration and its fields
  timers,    \* the pending setTimeout callbacks of run(): their due times, in order
  now,       \* the clock (Date.now())
  emitted,   \* the events dispatched by the latest step, in dispatch order
  \* what a listener of the events and a caller of start()/stop() have seen
  ticks,     \* the number of timer callbacks run
  log,       \* the event types of every callback so far (see LogAfter)
  phase,     \* speechstart against speechstop/speechabort (see PhaseAfter)
  seg,       \* the ticks of the segment in progress (see SegAfter)
  pre,       \* the cadence of prespeechstart (see PreAfter)
  stopped,   \* what happened since the latest stop() (see the actions)
  mic,       \* the listener's view of mutedmic and unmutedmic (see MicAfter)
  segSignals,\* the signal events since the latest speechstart, it included
  \* what the audio pipeline and a caller of checkClipping() have seen
  fed,       \* << >>, or << the latest block, the volume before it >>
  checked,   \* << >>, or << the result of the latest checkClipping(), its time >>
  clippedAt  \* the time of the latest block with a clipped sample (-1: none)

\* ------------------------------------------------------------ VolumeMeter
\* the averaging factors a meter is constructed with, as << numerator,
\* denominator >>
Averagings == { << 1, 2 >> }
\* the clip levels and the clip lags a meter is constructed with
ClipLevels == { 7 }
ClipLags == { 2 }

\* the field initialisers and the constructor
VolumeMeter(clipLevel, averaging, clipLag) ==
  [ clipLevel |-> clipLevel, averaging |-> averaging, clipLag |-> clipLag,
    volume |-> 0, lastClip |-> 0, clipping |-> FALSE ]

\* the audio blocks the pipeline delivers while the detector runs: the
\* empty block, silence, and blocks whose root mean square is 1, 3, 4 and 6
Blocks == { <<>>, <<0>>, <<1, -1>>, <<-3>>, <<4, -4>>, <<6>> }

\* the same, and blocks with samples at and above the clip level
MeterBlocks == Blocks \cup { <<-7, 7>>, <<8>> }

RECURSIVE SumSquares(_)
SumSquares(buf) == IF buf = <<>> THEN 0 ELSE Head(buf) * Head(buf) + SumSquares(Tail(buf))

\* Math.abs
MathAbs(x) == IF x < 0 THEN -x ELSE x

\* a sample of the block is at or above the clip level
Clips(m, buf) == \E i \in 1..Len(buf) : MathAbs(buf[i]) >= m.clipLevel

\* volumeAudioProcess at time t: the clip indicator, the root mean square
\* of the block, then fast attack and slow release against the previous
\* volume
volumeAudioProcess(m, buf, t) ==
  LET sum == SumSquares(buf)
      rms == MathSqrt(Divide(sum, Len(buf)))
      released == IF IsNaN(m.volume) THEN NaN ELSE (m.volume * m.averaging[1]) \div m.averaging[2]
      m1 == IF Clips(m, buf) THEN [m EXCEPT !.clipping = TRUE, !.lastClip = t] ELSE m
  IN [m1 EXCEPT !.volume = MathMax(rms, released)]

\* mutant of checkClipping: the indicator cleared at clipLag already
checkClipping_Inclusive(m, t) ==
  IF ~m.clipping THEN [self |-> m, value |-> FALSE]
  ELSE LET m1 == IF m.lastClip + m.clipLag <= t THEN [m EXCEPT !.clipping = FALSE] ELSE m
       IN [self |-> m1, value |-> m1.clipping]

\* checkClipping() at time t: the meter after it and the value returned
checkClipping(m, t) ==
  IF ~m.clipping THEN [self |-> m, value |-> FALSE]
  ELSE LET m1 == IF m.lastClip + m.clipLag < t THEN [m EXCEPT !.clipping = FALSE] ELSE m
       IN [self |-> m1, value |-> m1.clipping]

\* --------------------------------------------------------- AudioDetection
\* the configurations an instance is constructed with
Timeouts == {SAMPLE_POLLING_MSECS, 4}
PreSpeechStarts == {PRE_RECORD_START_MSECS, 3}
\* the default, and a mute threshold that is not below speakingMinVolume
MuteVolumes == {VOLUME_MUTE, VOLUME_SIGNAL}

Configs ==
  [ timeoutMilliSecs : Timeouts,
    prespeechstartMilliSecs : PreSpeechStarts,
    speakingMinVolume : {VOLUME_SIGNAL},
    silenceVolume : {VOLUME_SILENCE},
    muteVolume : MuteVolumes,
    recordingEnabled : BOOLEAN ]

\* the field initialisers and the constructor
AudioDetection(config) ==
  [ volumeState |-> "mute",
    speechStarted |-> FALSE,
    silenceItems |-> 0,
    signalItems |-> 0,
    speechstartTime |-> 0,
    prerecordingItems |-> 0,
    speechVolumesList |-> <<>>,
    maxSilenceItems |-> MathRound(MAX_INTERSPEECH_SILENCE_MSECS, SAMPLE_POLLING_MSECS),
    timeoutMilliSecs |-> config.timeoutMilliSecs,
    prespeechstartMilliSecs |-> config.prespeechstartMilliSecs,
    speakingMinVolume |-> config.speakingMinVolume,
    silenceVolume |-> config.silenceVolume,
    muteVolume |-> config.muteVolume,
    recordingEnabled |-> config.recordingEnabled,
    stopRunning |-> FALSE ]

\* new CustomEvent(type, eventData)
CustomEvent(type, eventData) == [type |-> type, detail |-> eventData]

\* the abort field of a silence detail: undefined, or the reason of an abort
NoAbort == [reason |-> "undefined", value |-> 0, min |-> 0]

averageSignal(self) == average(self.speechVolumesList)

\* a method's result: the instance after it and the events it dispatched
Result(self, out) == [self |-> self, out |-> out]

\* mutant of mute: the transition event dispatched before the level event
mute_MicFirst(self, timestamp, duration) ==
  LET eventData == [event |-> "mute", volume |-> meter.volume,
                    timestamp |-> timestamp, duration |-> duration]
  IN IF self.volumeState # "mute"
     THEN Result([self EXCEPT !.volumeState = "mute"],
                 << CustomEvent("mutedmic", eventData), CustomEvent("mute", eventData) >>)
     ELSE Result(self, << CustomEvent("mute", eventData) >>)

\* mutant of mute: mutedmic dispatched by every mute tick
mute_NoTransitionTest(self, timestamp, duration) ==
  LET eventData == [event |-> "mute", volume |-> meter.volume,
                    timestamp |-> timestamp, duration |-> duration]
  IN Result([self EXCEPT !.volumeState = "mute"],
            << CustomEvent("mute", eventData), CustomEvent("mutedmic", eventData) >>)

\* mutant of mute: a mute tick taken for the end of both runs
mute_ResetsCounters(self, timestamp, duration) ==
  LET eventData == [event |-> "mute", volume |-> meter.volume,
                    timestamp |-> timestamp, duration |-> duration]
      s1 == [self EXCEPT !.silenceItems = 0, !.signalItems = 0]
  IN IF s1.volumeState # "mute"
     THEN Result([s1 EXCEPT !.volumeState = "mute"],
                 << CustomEvent("mute", eventData), CustomEvent("mutedmic", eventData) >>)
     ELSE Result(s1, << CustomEvent("mute", eventData) >>)

mute(self, timestamp, duration) ==
  LET eventData == [event |-> "mute", volume |-> meter.volume,
                    timestamp |-> timestamp, duration |-> duration]
  IN IF self.volumeState # "mute"
     THEN Result([self EXCEPT !.volumeState = "mute"],
                 << CustomEvent("mute", eventData), CustomEvent("mutedmic", eventData) >>)
     ELSE Result(self, << CustomEvent("mute", eventData) >>)

\* mutants of signal: volumeState set by every signal tick, and the list
\* of volumes kept when a segment is opened
signal_TracksLevel(self, timestamp, duration) ==
  LET s1 == [self EXCEPT !.silenceItems = 0, !.signalItems = self.signalItems + 1]
      eventData == [event |-> "signal", volume |-> meter.volume,
                    timestamp |-> timestamp, duration |-> duration,
                    items |-> s1.signalItems]
      opens == ~s1.speechStarted
      s2 == IF opens
            THEN [s1 EXCEPT !.speechstartTime = timestamp,
                            !.speechStarted = TRUE,
                            !.speechVolumesList = <<>>]
            ELSE s1
      s3 == [s2 EXCEPT !.speechVolumesList = Append(s2.speechVolumesList, meter.volume)]
      unmutes == s3.volumeState = "mute"
      s4 == [s3 EXCEPT !.volumeState = "signal"]
  IN Result(s4,
            (IF opens THEN << CustomEvent("speechstart", eventData) >> ELSE << >>)
            \o << CustomEvent("signal", eventData) >>
            \o (IF unmutes THEN << CustomEvent("unmutedmic", eventData) >> ELSE << >>))

signal_NoClear(self, timestamp, duration) ==
  LET s1 == [self EXCEPT !.silenceItems = 0, !.signalItems = self.signalItems + 1]
      eventData == [event |-> "signal", volume |-> meter.volume,
                    timestamp |-> timestamp, duration |-> duration,
                    items |-> s1.signalItems]
      opens == ~s1.speechStarted
      s2 == IF opens
            THEN [s1 EXCEPT !.speechstartTime = timestamp,
                            !.speechStarted = TRUE]
            ELSE s1
      s3 == [s2 EXCEPT !.speechVolumesList = Append(s2.speechVolumesList, meter.volume)]
      unmutes == s3.volumeState = "mute"
      s4 == IF unmutes THEN [s3 EXCEPT !.volumeState = "signal"] ELSE s3
  IN Result(s4,
            (IF opens THEN << CustomEvent("speechstart", eventData) >> ELSE << >>)
            \o << CustomEvent("signal", eventData) >>
            \o (IF unmutes THEN << CustomEvent("unmutedmic", eventData) >> ELSE << >>))

signal(self, timestamp, duration) ==
  LET s1 == [self EXCEPT !.silenceItems = 0, !.signalItems = self.signalItems + 1]
      eventData == [event |-> "signal", volume |-> meter.volume,
                    timestamp |-> timestamp, duration |-> duration,
                    items |-> s1.signalItems]
      opens == ~s1.speechStarted
      s2 == IF opens
            THEN [s1 EXCEPT !.speechstartTime = timestamp,
                            !.speechStarted = TRUE,
                            !.speechVolumesList = <<>>]
            ELSE s1
      s3 == [s2 EXCEPT !.speechVolumesList = Append(s2.speechVolumesList, meter.volume)]
      unmutes == s3.volumeState = "mute"
      s4 == IF unmutes THEN [s3 EXCEPT !.volumeState = "signal"] ELSE s3
  IN Result(s4,
            (IF opens THEN << CustomEvent("speechstart", eventData) >> ELSE << >>)
            \o << CustomEvent("signal", eventData) >>
            \o (IF unmutes THEN << CustomEvent("unmutedmic", eventData) >> ELSE << >>))

\* mutants of resolves: the comparison taken before the increment of
\* silenceItems, and the test of speechStarted forgotten
resolves_Late(self) == self.speechStarted /\ self.silenceItems = self.maxSilenceItems + 1

resolves_Idle(self) == self.silenceItems = self.maxSilenceItems

\* the test that a silence tick closes the segment
resolves(self) == self.speechStarted /\ self.silenceItems = self.maxSilenceItems

\* mutant of verdict: an average equal to the minimum aborts too
verdict_AverageInclusive(self, eventData, duration) ==
  LET signalDuration == duration - MAX_INTERSPEECH_SILENCE_MSECS
      averageSignalValue == averageSignal(self)
  IN IF signalDuration < MIN_SIGNAL_DURATION
     THEN CustomEvent("speechabort",
            [eventData EXCEPT !.abort = [reason |-> "signal duration",
                                         value |-> signalDuration,
                                         min |-> MIN_SIGNAL_DURATION]])
     ELSE IF ~Gt(averageSignalValue, MIN_AVERAGE_SIGNAL_VOLUME)
     THEN CustomEvent("speechabort",
            [eventData EXCEPT !.abort = [reason |-> "signal average volume",
                                         value |-> averageSignalValue,
                                         min |-> MIN_AVERAGE_SIGNAL_VOLUME]])
     ELSE CustomEvent("speechstop", eventData)

\* the verdict on the segment: the event dispatched when it is closed
verdict(self, eventData, duration) ==
  LET signalDuration == duration - MAX_INTERSPEECH_SILENCE_MSECS
      averageSignalValue == averageSignal(self)
  IN IF signalDuration < MIN_SIGNAL_DURATION
     THEN CustomEvent("speechabort",
            [eventData EXCEPT !.abort = [reason |-> "signal duration",
                                         value |-> signalDuration,
                                         min |-> MIN_SIGNAL_DURATION]])
     ELSE IF Lt(averageSignalValue, MIN_AVERAGE_SIGNAL_VOLUME)
     THEN CustomEvent("speechabort",
            [eventData EXCEPT !.abort = [reason |-> "signal average volume",
                                         value |-> averageSignalValue,
                                         min |-> MIN_AVERAGE_SIGNAL_VOLUME]])
     ELSE CustomEvent("speechstop", eventData)

silence(self, timestamp, duration) ==
  LET s1 == [self EXCEPT !.signalItems = 0, !.silenceItems = self.silenceItems + 1]
      eventData == [event |-> "silence", volume |-> meter.volume,
                    timestamp |-> timestamp, duration |-> duration,
                    items |-> s1.silenceItems, abort |-> NoAbort]
      unmutes == s1.volumeState = "mute"
      s2 == IF unmutes THEN [s1 EXCEPT !.volumeState = "silence"] ELSE s1
      closes == resolves(s2)
      s3 == IF closes THEN [s2 EXCEPT !.speechStarted = FALSE] ELSE s2
  IN Result(s3,
            << CustomEvent("silence", eventData) >>
            \o (IF unmutes THEN << CustomEvent("unmutedmic", eventData) >> ELSE << >>)
            \o (IF closes THEN << verdict(s2, eventData, duration) >> ELSE << >>))

\* mutant of sampleThresholdsDecision: the thresholds taken inclusive
sampleThresholdsDecision_Inclusive(self, timestamp) ==
  LET duration == timestamp - self.speechstartTime
  IN IF ~Gt(meter.volume, self.muteVolume) /\ ~IsNaN(meter.volume)
     THEN mute(self, timestamp, duration)
     ELSE IF ~Lt(meter.volume, self.speakingMinVolume) /\ ~IsNaN(meter.volume)
     THEN signal(self, timestamp, duration)
     ELSE silence(self, timestamp, duration)

sampleThresholdsDecision(self, timestamp) ==
  LET duration == timestamp - self.speechstartTime
  IN IF Lt(meter.volume, self.muteVolume) THEN mute(self, timestamp, duration)
     ELSE IF Gt(meter.volume, self.speakingMinVolume) THEN signal(self, timestamp, duration)
     ELSE silence(self, timestamp, duration)

\* mutant of prerecording: the counter reset only when the event is dispatched
prerecording_ResetOnEmit(self, timestamp) ==
  LET s1 == [self EXCEPT !.prerecordingItems = self.prerecordingItems + 1]
      eventData == [event |-> "prespeechstart", volume |-> meter.volume,
                    timestamp |-> timestamp, items |-> s1.prerecordingItems]
      due == s1.prerecordingItems * s1.timeoutMilliSecs >= s1.prespeechstartMilliSecs
  IN IF due /\ ~s1.speechStarted
     THEN Result([s1 EXCEPT !.prerecordingItems = 0],
                 << CustomEvent("prespeechstart", eventData) >>)
     ELSE Result(s1, << >>)

prerecording(self, timestamp) ==
  LET s1 == [self EXCEPT !.prerecordingItems = self.prerecordingItems + 1]
      eventData == [event |-> "prespeechstart", volume |-> meter.volume,
                    timestamp |-> timestamp, items |-> s1.prerecordingItems]
      due == s1.prerecordingItems * s1.timeoutMilliSecs >= s1.prespeechstartMilliSecs
  IN IF due
     THEN Result([s1 EXCEPT !.prerecordingItems = 0],
                 IF ~s1.speechStarted
                 THEN << CustomEvent("prespeechstart", eventData) >> ELSE << >>)
     ELSE Result(s1, << >>)

\* run(): setTimeout(callback, timeoutMilliSecs) at time t
run(self, queue, t) == Append(queue, t + self.timeoutMilliSecs)

\* mutant of reschedule: stopRunning not looked at
reschedule_Always(self, queue, timestamp) == run(self, queue, timestamp)

\* the end of the timer callback: run() again unless stop() was called
reschedule(self, queue, timestamp) ==
  IF ~self.stopRunning THEN run(self, queue, timestamp) ELSE queue

\* mutant of callback: recordingEnabled not looked at
callback_AlwaysSample(self, queue, timestamp) ==
  LET p == prerecording(self, timestamp)
      d == sampleThresholdsDecision(p.self, timestamp)
  IN [ self |-> d.self,
       out |-> p.out \o d.out,
       timers |-> reschedule(d.self, Tail(queue), timestamp) ]

\* the timer callback of run() expiring at `timestamp`, the head of `queue`
callback(self, queue, timestamp) ==
  LET p == prerecording(self, timestamp)
      d == IF p.self.recordingEnabled
           THEN sampleThresholdsDecision(p.self, timestamp)
           ELSE Result(p.self, << >>)
  IN [ self |-> d.self,
       out |-> p.out \o d.out,
       timers |-> reschedule(d.self, Tail(queue), timestamp) ]

\* ---------------------------------------------------------- the observers
Types(out) == [i \in 1..Len(out) |-> out[i].type]

Has(out, type) == \E i \in 1..Len(out) : out[i].type = type

\* how often `type` is among the event types of a callback, and of a log
CountType(types, type) == Cardinality({i \in 1..Len(types) : types[i] = type})

RECURSIVE Total(_, _)
Total(l, type) == IF l = << >> THEN 0 ELSE CountType(Head(l), type) + Total(Tail(l), type)

LevelTypes == {"mute", "signal", "silence"}
TerminalTypes == {"speechstop", "speechabort"}
ResolutionTypes == {"speechstart", "speechstop", "speechabort"}
MicTypes == {"mutedmic", "unmutedmic"}

\* the level events among the event types of a callback
LevelsOf(types) == SelectSeq(types, LAMBDA ty : ty \in LevelTypes)

Levels(out) == LevelsOf(Types(out))

\* the event types of a callback that dispatched exactly the level `type`
IsLevel(types, type) == LevelsOf(types) = << type >>

\* k copies of x
Rep(x, k) == [i \in 1..k |-> x]

\* the log is kept for as long as the run since construction is one of the
\* two scenarios: only mute ticks, or signal ticks followed by silence ticks.
\* It is dropped (and stays dropped) at the first tick that leaves them.
InScenario(l) ==
  \/ \A i \in 1..Len(l) : IsLevel(l[i], "mute")
  \/ \E n \in 1..Len(l) :
       /\ \A i \in 1..n : IsLevel(l[i], "signal")
       /\ \A i \in (n + 1)..Len(l) : IsLevel(l[i], "silence")

Dropped == << << "dropped" >> >>

LogAfter(l, out) ==
  IF l # Dropped /\ InScenario(Append(l, out)) THEN Append(l, out) ELSE Dropped

\* the listener's view of the segments: idle, until a speechstart makes it
\* active, until a speechstop or speechabort makes it idle again; an event
\* out of this order makes it "broken" for good
RECURSIVE PhaseAfter(_, _)
PhaseAfter(ph, types) ==
  IF types = << >> THEN ph
  ELSE LET ty == Head(types)
           nxt == IF ty = "speechstart"
                  THEN (IF ph = "idle" THEN "active" ELSE "broken")
                  ELSE IF ty \in TerminalTypes
                  THEN (IF ph = "active" THEN "idle" ELSE "broken")
                  ELSE ph
       IN PhaseAfter(nxt, Tail(types))

\* the levels of the ticks of the segment in progress, from the tick that
\* opened it to the tick that resolved it, for as long as they are signal
\* ticks followed by silence ticks, each timeoutMilliSecs after the one
\* before; << >> otherwise
SegAfter(sg, self, out, timestamp, previous) ==
  IF Has(out, "speechstart") THEN << "signal" >>
  ELSE IF sg = << >> \/ ~self.speechStarted \/ Levels(out) = << >> THEN << >>
  ELSE LET lv == Head(Levels(out))
       IN IF /\ timestamp - previous = self.timeoutMilliSecs
             /\ \/ lv = "silence"
                \/ lv = "signal" /\ sg[Len(sg)] = "signal"
          THEN Append(sg, lv)
          ELSE << >>

\* since: the callbacks since the latest prespeechstart (-1 before the first);
\* gap: the callbacks between the latest two prespeechstart (-1 before the
\* second); active: a prespeechstart was dispatched by a callback that
\* found a segment in progress
PreAfter(pr, self, out) ==
  IF Has(out, "prespeechstart")
  THEN [since |-> 0,
        gap |-> IF pr.since = -1 THEN pr.gap ELSE pr.since + 1,
        active |-> pr.active \/ self.speechStarted]
  ELSE [pr EXCEPT !.since = IF pr.since = -1 THEN -1 ELSE pr.since + 1]

\* the latest of mutedmic and unmutedmic the listener received ("none"
\* before the first); two of the same in a row make it "broken" for good
RECURSIVE MicAfter(_, _)
MicAfter(mc, types) ==
  IF types = << >> THEN mc
  ELSE LET ty == Head(types)
           nxt == IF ty \in MicTypes
                  THEN (IF mc \in {ty, "broken"} THEN "broken" ELSE ty)
                  ELSE mc
       IN MicAfter(nxt, Tail(types))

\* the signal events of the segment in progress: 1 with its speechstart,
\* one more with each signal event after it, 0 once it is closed
SignalsAfter(n, types) ==
  IF \E i \in 1..Len(types) : types[i] = "speechstart" THEN 1
  ELSE IF \E i \in 1..Len(types) : types[i] \in TerminalTypes THEN 0
  ELSE IF n > 0 /\ LevelsOf(types) = << "signal" >> THEN n + 1
  ELSE n

NotStopped == [case |-> "none", pending |-> 0, ran |-> 0, events |-> 0]

vars == << meter, ad, timers, now, emitted, ticks, log, phase, seg, pre, stopped,
          mic, segSignals,
          fed, checked, clippedAt >>

\* ---------------------------------------------------------------- actions
Init ==
  /\ meter \in { VolumeMeter(l, a, g) : l \in ClipLevels, a \in Averagings, g \in ClipLags }
  /\ ad \in { AudioDetection(c) : c \in Configs }
  /\ timers = << >>
  /\ now = 0
  /\ emitted = << >>
  /\ ticks = 0
  /\ log = << >>
  /\ phase = "idle"
  /\ seg = << >>
  /\ pre = [since |-> -1, gap |-> -1, active |-> FALSE]
  /\ stopped = [NotStopped EXCEPT !.case = "never started"]
  /\ mic = "none"
  /\ segSignals = 0
  /\ fed = << >>
  /\ checked = << >>
  /\ clippedAt = -1

\* the audio pipeline delivers a block (onaudioprocess)
ProcessBlock ==
  \E buf \in Blocks :
    /\ meter' = volumeAudioProcess(meter, buf, now)
    /\ meter' # meter
    /\ emitted' = << >>
    /\ UNCHANGED << ad, timers, now, ticks, log, phase, seg, pre, stopped >>
    /\ UNCHANGED << mic, segSignals, fed, checked, clippedAt >>

\* start()
Start ==
  /\ Len(timers) < MaxTimers
  /\ ad' = [ad EXCEPT !.stopRunning = FALSE]
  /\ timers' = run(ad, timers, now)
  /\ emitted' = << >>
  /\ stopped' = NotStopped
  /\ UNCHANGED << meter, now, ticks, log, phase, seg, pre, mic, segSignals,
                  fed, checked, clippedAt >>

\* stop(): the caller notes when it stopped (before start() was ever called,
\* after start() and before the first callback, or later) and how many
\* timers were pending
Stop ==
  /\ ad' = [ad EXCEPT !.stopRunning = TRUE]
  /\ emitted' = << >>
  /\ stopped' = [case |-> IF stopped.case \in {"never started", "before start"}
                          THEN "before start"
                          ELSE IF ticks = 0 THEN "before first tick" ELSE "later",
                 pending |-> Len(timers), ran |-> 0, events |-> 0]
  /\ UNCHANGED << meter, timers, now, ticks, log, phase, seg, pre, mic, segSignals,
                  fed, checked, clippedAt >>

\* the earliest pending timer expires and its callback runs
Timeout(bound) ==
  /\ timers # << >>
  /\ ticks < bound
  /\ LET t == Head(timers)
         r == callback(ad, timers, t)
     IN /\ now' = t
        /\ ad' = r.self
        /\ emitted' = r.out
        /\ timers' = r.timers
        /\ ticks' = ticks + 1
        /\ log' = LogAfter(log, Types(r.out))
        /\ phase' = PhaseAfter(phase, Types(r.out))
        /\ seg' = SegAfter(seg, ad, r.out, t, now)
        /\ pre' = PreAfter(pre, ad, r.out)
        /\ mic' = MicAfter(mic, Types(r.out))
        /\ segSignals' = SignalsAfter(segSignals, Types(r.out))
        /\ stopped' = IF ad.stopRunning
                      THEN [stopped EXCEPT !.ran = @ + 1, !.events = @ + Len(r.out)]
                      ELSE stopped
  /\ UNCHANGED << meter, fed, checked, clippedAt >>

\* one uninterrupted run: start() once, then the timer chain and the blocks
StartOnce == Start /\ timers = << >> /\ ticks = 0

Tick == Timeout(MaxTicks)

Next == ProcessBlock \/ StartOnce \/ Tick

Spec == Init /\ [][Next]_vars

\* any calls of start() and stop() between the callbacks
TickSched == Timeout(MaxSchedTicks)

NextSched == ProcessBlock \/ Start \/ Stop \/ TickSched

SpecSched == Init /\ [][NextSched]_vars

\* the meter alone: blocks, calls of checkClipping() and the passing of time
DefaultConfig ==
  [ timeoutMilliSecs |-> SAMPLE_POLLING_MSECS,
    prespeechstartMilliSecs |-> PRE_RECORD_START_MSECS,
    speakingMinVolume |-> VOLUME_SIGNAL,
    silenceVolume |-> VOLUME_SILENCE,
    muteVolume |-> VOLUME_MUTE,
    recordingEnabled |-> TRUE ]

InitMeter == Init /\ ad = AudioDetection(DefaultConfig)

detector == << ad, timers, emitted, ticks, log, phase, seg, pre, stopped, mic, segSignals >>

\* the audio pipeline delivers a block (onaudioprocess)
Feed ==
  \E buf \in MeterBlocks :
    /\ meter' = volumeAudioProcess(meter, buf, now)
    /\ fed' = << buf, meter.volume >>
    /\ checked' = << >>
    /\ clippedAt' = IF Clips(meter, buf) THEN now ELSE clippedAt
    /\ UNCHANGED << now, detector >>

\* checkClipping()
CheckClipping ==
  LET r == checkClipping(meter, now)
  IN /\ meter' = r.self
     /\ checked' = << r.value, now >>
     /\ fed' = << >>
     /\ UNCHANGED << now, clippedAt, detector >>

\* time passes
Advance ==
  /\ now < MaxClock
  /\ now' = now + 1
  /\ fed' = << >>
  /\ checked' = << >>
  /\ UNCHANGED << meter, clippedAt, detector >>

NextMeter == Feed \/ CheckClipping \/ Advance

SpecMeter == InitMeter /\ [][NextMeter]_vars

\* ------------------------------------------------------------- the claims
\* the number of signal ticks in the log
SignalTicks(l) == Cardinality({i \in 1..Len(l) : IsLevel(l[i], "signal")})

\* C1: with recording enabled and from the initial state, N >= 1 signal
\* ticks followed by k silence ticks dispatch one speechstart (on the first
\* tick), N signal events, k silence events and, once k reaches
\* maxSilenceItems, exactly one speechstop or speechabort, dispatched by the
\* tick on which silenceItems = maxSilenceItems; the silence ticks before it
\* and after it dispatch none.
C1_OneSegment ==
  (ad.recordingEnabled /\ log # Dropped /\ log # << >> /\ IsLevel(log[1], "signal")) =>
    LET n == SignalTicks(log)
        k == Len(log) - n
        m == ad.maxSilenceItems
    IN /\ Total(log, "speechstart") = 1
       /\ CountType(log[1], "speechstart") = 1
       /\ Total(log, "signal") = n
       /\ Total(log, "silence") = k
       /\ ad.silenceItems = k
       /\ Total(log, "speechstop") + Total(log, "speechabort") = (IF k >= m THEN 1 ELSE 0)
       /\ k >= m => CountType(log[n + m], "speechstop") + CountType(log[n + m], "speechabort") = 1

\* a segment of two signal ticks, closed, and one more silence tick
W_C1 ==
  /\ ad.recordingEnabled /\ log # Dropped
  /\ SignalTicks(log) = 2
  /\ Len(log) = 2 + ad.maxSilenceItems + 1

\* C2 as stated: within a callback the level event comes before every
\* speechstart, speechstop, speechabort, mutedmic and unmutedmic.
C2_LevelFirst ==
  \A i, j \in 1..Len(emitted) :
    (emitted[i].type \in LevelTypes /\ emitted[j].type \in ResolutionTypes \cup MicTypes)
      => i < j

\* C2, amended: within a callback the level event comes before every
\* speechstop, speechabort, mutedmic and unmutedmic, and there is one
\* whenever one of those or a speechstart is dispatched; a speechstart is
\* dispatched immediately before the signal event of the tick.
C2_LevelBeforeVerdictAndMic ==
  /\ \A i, j \in 1..Len(emitted) :
       (emitted[i].type \in LevelTypes /\ emitted[j].type \in TerminalTypes \cup MicTypes)
         => i < j
  /\ \A j \in 1..Len(emitted) :
       emitted[j].type \in ResolutionTypes \cup MicTypes => Levels(emitted) # << >>
  /\ \A j \in 1..Len(emitted) :
       emitted[j].type = "speechstart" => j < Len(emitted) /\ emitted[j + 1].type = "signal"

\* a silence tick that reports the microphone open and closes a segment
W_C2 ==
  /\ Has(emitted, "unmutedmic")
  /\ Has(emitted, "silence")
  /\ Has(emitted, "speechstop") \/ Has(emitted, "speechabort")

\* C3: speechstart and speechstop/speechabort alternate, beginning with
\* speechstart, and speechStarted is true exactly from a speechstart to
\* the next speechstop or speechabort.
C3_Alternation ==
  /\ phase # "broken"
  /\ phase = "active" <=> ad.speechStarted

\* a second segment is opened: the speechstart carries the time since the
\* first one was opened
W_C3 ==
  \E i \in 1..Len(emitted) :
    /\ emitted[i].type = "speechstart"
    /\ emitted[i].detail.duration < emitted[i].detail.timestamp
    /\ phase = "active"

\* the level the claim gives a sampled volume
LevelOfVolume(v, muteVolume, speakingMinVolume) ==
  IF v # NaN /\ v < muteVolume THEN "mute"
  ELSE IF v # NaN /\ v > speakingMinVolume THEN "signal"
  ELSE "silence"

\* C4: with recording enabled a callback dispatches exactly one level
\* event, mute if the meter's volume v < muteVolume, otherwise signal if
\* v > speakingMinVolume, otherwise silence; the event carries v, and a
\* signal tick appends v to speechVolumesList.
C4_OneLevelPerTick ==
  [][ (ticks' # ticks /\ ad.recordingEnabled) =>
        LET v == meter.volume
            lv == LevelOfVolume(v, ad.muteVolume, ad.speakingMinVolume)
        IN /\ meter'.volume = v
           /\ Levels(emitted') = << lv >>
           /\ \A i \in 1..Len(emitted') :
                emitted'[i].type = lv => emitted'[i].detail.volume = v
           /\ IF lv = "signal"
              THEN /\ ad'.speechVolumesList # << >>
                   /\ ad'.speechVolumesList[Len(ad'.speechVolumesList)] = v
                   /\ \/ ad'.speechVolumesList = Append(ad.speechVolumesList, v)
                      \/ ad'.speechVolumesList = << v >>
              ELSE ad'.speechVolumesList = ad.speechVolumesList ]_vars

\* a tick classified silence on the volume speakingMinVolume itself, after
\* blocks were processed since construction
W_C4 ==
  \E i \in 1..Len(emitted) :
    /\ emitted[i].type = "silence"
    /\ emitted[i].detail.volume = ad.speakingMinVolume
    /\ ad.recordingEnabled

\* the segment in progress is n signal ticks followed by k silence ticks,
\* each timeoutMilliSecs after the one before
SegIs(n, k) == seg = Rep("signal", n) \o Rep("silence", k)

\* the speechstop or speechabort events of the latest callback
Verdicts == SelectSeq(emitted, LAMBDA e : e.type \in TerminalTypes)

\* C5 as stated: with the ticks timeoutMilliSecs apart, a segment of N
\* signal ticks with N * timeoutMilliSecs < MIN_SIGNAL_DURATION followed by
\* maxSilenceItems silence ticks is closed by a speechabort for the signal
\* duration, which is the duration less MAX_INTERSPEECH_SILENCE_MSECS and
\* is below MIN_SIGNAL_DURATION; speechStarted is false afterwards.
C5_ShortSegmentAborts ==
  \A n \in 1..MaxTicks :
    ( /\ SegIs(n, ad.maxSilenceItems)
      /\ emitted # << >>
      /\ n * ad.timeoutMilliSecs < MIN_SIGNAL_DURATION )
    => /\ Len(Verdicts) = 1
       /\ Verdicts[1].type = "speechabort"
       /\ Verdicts[1].detail.abort.reason = "signal duration"
       /\ Verdicts[1].detail.abort.value
            = Verdicts[1].detail.duration - MAX_INTERSPEECH_SILENCE_MSECS
       /\ Verdicts[1].detail.abort.value < MIN_SIGNAL_DURATION
       /\ ~ad.speechStarted

\* C6: a callback that closes a segment whose duration less
\* MAX_INTERSPEECH_SILENCE_MSECS is at least MIN_SIGNAL_DURATION dispatches
\* speechabort for the average volume if the mean of speechVolumesList is
\* below MIN_AVERAGE_SIGNAL_VOLUME and speechstop otherwise; whatever the
\* verdict, speechStarted is false after it.
C6_VerdictByAverage ==
  \A i \in 1..Len(Verdicts) :
    LET e == Verdicts[i]
        list == ad.speechVolumesList
    IN /\ ~ad.speechStarted
       /\ Len(Verdicts) = 1
       /\ list # << >>
       /\ (e.detail.duration - MAX_INTERSPEECH_SILENCE_MSECS >= MIN_SIGNAL_DURATION) =>
            IF SumSeq(list) < MIN_AVERAGE_SIGNAL_VOLUME * Len(list)
            THEN e.type = "speechabort" /\ e.detail.abort.reason = "signal average volume"
            ELSE e.type = "speechstop" /\ e.detail.abort = NoAbort

\* a segment that lasted long enough is aborted for its average volume
W_C6 ==
  /\ Len(Verdicts) = 1
  /\ Verdicts[1].type = "speechabort"
  /\ Verdicts[1].detail.abort.reason = "signal average volume"
  /\ Verdicts[1].detail.duration - MAX_INTERSPEECH_SILENCE_MSECS >= MIN_SIGNAL_DURATION

\* the least number of ticks c with c * b >= a
CeilDiv(a, b) == (a + b - 1) \div b

\* C7: prespeechstart is never dispatched by a callback that found a
\* segment in progress; from one prespeechstart to the next at least
\* ceil(prespeechstartMilliSecs / timeoutMilliSecs) ticks pass; and a tick
\* on which prerecordingItems * timeoutMilliSecs reaches
\* prespeechstartMilliSecs resets the counter, dispatched or not, so the
\* counter is below that mark after every tick.
C7_Heartbeat ==
  /\ ~pre.active
  /\ pre.gap # -1 => pre.gap >= CeilDiv(ad.prespeechstartMilliSecs, ad.timeoutMilliSecs)
  /\ ad.prerecordingItems * ad.timeoutMilliSecs < ad.prespeechstartMilliSecs
  /\ Has(emitted, "prespeechstart") => ad.prerecordingItems = 0

\* a prespeechstart was suppressed by a segment in progress: the next one
\* comes two periods after the one before
W_C7 ==
  /\ Has(emitted, "prespeechstart")
  /\ pre.gap = 2 * CeilDiv(ad.prespeechstartMilliSecs, ad.timeoutMilliSecs)
  /\ ad.prespeechstartMilliSecs > ad.timeoutMilliSecs

\* C8 as stated: from the initial state K >= 1 mute ticks dispatch K mute
\* events, one mutedmic (on the first tick) and no speechstart.
C8_OneMutedmic ==
  (log # Dropped /\ log # << >> /\ IsLevel(log[1], "mute")) =>
    /\ Total(log, "mute") = Len(log)
    /\ Total(log, "mutedmic") = 1
    /\ CountType(log[1], "mutedmic") = 1
    /\ Total(log, "speechstart") = 0

\* C8, amended: from the initial state K >= 1 mute ticks dispatch K mute
\* events, no mutedmic (volumeState is 'mute' from construction) and no
\* speechstart.
C8_NoMutedmic ==
  (log # Dropped /\ log # << >> /\ IsLevel(log[1], "mute")) =>
    /\ Total(log, "mute") = Len(log)
    /\ Total(log, "mutedmic") = 0
    /\ Total(log, "speechstart") = 0
    /\ ad.volumeState = "mute"
    /\ ~ad.speechStarted

\* five mute ticks from the initial state
W_C8 ==
  /\ log # Dropped
  /\ Len(log) = 5
  /\ \A i \in 1..5 : IsLevel(log[i], "mute")

\* C9 as stated: after stop(), and without a later start(), one more
\* callback runs at most.
C9_OneTickAfterStop == stopped.case \notin {"none", "never started"} => stopped.ran <= 1

\* C10 as stated: after a stop() called before the first callback has run
\* (before start() was ever called, or between start() and the first
\* expiry), and without a later start(), no event is dispatched.
C10_NoEventAfterEarlyStop ==
  stopped.case \in {"before start", "before first tick"} => stopped.events = 0

\* C10, amended: after a stop() called before start() was ever called, and
\* without a later start(), no timer is pending, no callback runs and no
\* event is dispatched.  After a stop() called between start() and the
\* first expiry, the callbacks pending at the stop() still run, once each,
\* and none is scheduled after them.
C10_EarlyStop ==
  /\ stopped.case = "before start" =>
       timers = << >> /\ stopped.ran = 0 /\ stopped.events = 0 /\ ticks = 0
  /\ stopped.case = "before first tick" =>
       /\ stopped.pending >= 1
       /\ stopped.ran + Len(timers) = stopped.pending

\* start(), stop(), and the callback that was pending has run and has
\* dispatched events; nothing is pending any more
W_C10 ==
  /\ stopped.case = "before first tick"
  /\ stopped.ran = 1
  /\ stopped.events > 0
  /\ timers = << >>

\* C11: with recordingEnabled false every callback still counts for the
\* prespeechstart (dispatched every ceil(prespeechstartMilliSecs /
\* timeoutMilliSecs) callbacks), no other event is dispatched, and
\* volumeState, speechStarted, silenceItems, signalItems and
\* speechVolumesList keep their initial values.
C11_DisabledOnlyHeartbeat ==
  ~ad.recordingEnabled =>
    LET c == CeilDiv(ad.prespeechstartMilliSecs, ad.timeoutMilliSecs)
    IN /\ \A i \in 1..Len(emitted) : emitted[i].type = "prespeechstart"
       /\ ad.prerecordingItems = ticks % c
       /\ pre.since = (IF ticks < c THEN -1 ELSE ticks % c)
       /\ ad.volumeState = "mute"
       /\ ~ad.speechStarted
       /\ ad.silenceItems = 0
       /\ ad.signalItems = 0
       /\ ad.speechVolumesList = << >>
       /\ phase = "idle"

\* recording disabled: the second prespeechstart, while the meter's volume
\* is one that would be classified signal
W_C11 ==
  /\ ~ad.recordingEnabled
  /\ Has(emitted, "prespeechstart")
  /\ pre.gap # -1
  /\ Gt(meter.volume, ad.speakingMinVolume)

\* C12 as stated: no instance whose maxSilenceItems is 0 or whose
\* muteVolume is not below its speakingMinVolume ever runs a callback (the
\* constructor rejects it).
C12_MisconfigurationRejected ==
  (ad.maxSilenceItems = 0 \/ ad.muteVolume >= ad.speakingMinVolume) => ticks = 0

\* the root mean square of a non-empty block
RmsOf(buf) == MathSqrt(SumSquares(buf) \div Len(buf))

\* the previous volume times the averaging factor
Released(before) == (before * meter.averaging[1]) \div meter.averaging[2]

\* C13 as stated: after a non-empty block, whatever the volume before it,
\* the volume is the larger of the block's root mean square and the
\* previous volume times the averaging factor, hence a number that is at
\* least each of the two and at least 0.
C13_SmoothedIsMax ==
  (fed # << >> /\ fed[1] # << >>) =>
    LET rms == RmsOf(fed[1])
        released == Released(fed[2])
    IN /\ ~IsNaN(meter.volume)
       /\ meter.volume = (IF rms >= released THEN rms ELSE released)
       /\ meter.volume >= released
       /\ meter.volume >= rms
       /\ meter.volume >= 0

\* C14 as stated: after an empty block the volume is the previous volume
\* times the averaging factor (the root mean square counted as 0), a
\* number that is at least 0.
C14_EmptyBlockDecays ==
  (fed # << >> /\ fed[1] = << >>) =>
    /\ ~IsNaN(meter.volume)
    /\ meter.volume >= 0
    /\ ~IsNaN(fed[2]) => meter.volume = Released(fed[2])

\* C15: a block with a sample at or above the clip level sets clipping;
\* checkClipping() returns true when called up to clipLag after the latest
\* such block and false when called later, or when there was none; the flag
\* is what it returned.
C15_ClipIndicator ==
  /\ (fed # << >> /\ Clips(meter, fed[1])) =>
       meter.clipping /\ meter.lastClip = now /\ clippedAt = now
  /\ checked # << >> =>
       /\ checked[1] = (clippedAt # -1 /\ checked[2] <= clippedAt + meter.clipLag)
       /\ meter.clipping = checked[1]

\* checkClipping() returns false for the first time after a clipped block:
\* it is called more than clipLag after the block and clears the flag
W_C15 ==
  /\ checked # << >>
  /\ ~checked[1]
  /\ clippedAt # -1
  /\ checked[2] = clippedAt + meter.clipLag + 1

\* C16 as stated: maxSilenceItems, the run of silence ticks that closes a
\* segment, is round(MAX_INTERSPEECH_SILENCE_MSECS / timeoutMilliSecs) for
\* the configured timeoutMilliSecs.
C16_TriggerFollowsInterval ==
  LET expected == MathRound(MAX_INTERSPEECH_SILENCE_MSECS, ad.timeoutMilliSecs)
  IN /\ ad.maxSilenceItems = expected
     /\ Verdicts # << >> => ad.silenceItems = expected

\* the three run-time fields of the segment and the two counters
SegmentState(self) ==
  << self.speechStarted, self.speechstartTime, self.speechVolumesList,
     self.silenceItems, self.signalItems >>

\* C17: a tick on a volume below muteVolume leaves speechStarted,
\* speechstartTime, speechVolumesList, silenceItems and signalItems as they
\* were and dispatches no speechstart, speechstop or speechabort; a segment
\* is closed only by a silence tick after which silenceItems is
\* maxSilenceItems; silenceItems and signalItems are never both non-zero.
C17_MuteFrame ==
  [][ /\ ad'.silenceItems = 0 \/ ad'.signalItems = 0
      /\ (ticks' # ticks /\ ad.recordingEnabled
            /\ LevelOfVolume(meter.volume, ad.muteVolume, ad.speakingMinVolume) = "mute") =>
           /\ SegmentState(ad') = SegmentState(ad)
           /\ \A i \in 1..Len(emitted') : emitted'[i].type \notin ResolutionTypes
      /\ (ad.speechStarted /\ ~ad'.speechStarted) =>
           /\ ticks' # ticks
           /\ Levels(emitted') = << "silence" >>
           /\ LevelOfVolume(meter.volume, ad.muteVolume, ad.speakingMinVolume) = "silence"
           /\ ad'.silenceItems = ad'.maxSilenceItems ]_vars

\* a mute tick in a segment in progress, after a silence tick of it
W_C17 ==
  /\ Has(emitted, "mute")
  /\ ad.speechStarted
  /\ ad.silenceItems > 0
  /\ ad.speechVolumesList # << >>

\* C18: mutedmic is dispatched exactly by a mute tick that finds volumeState
\* other than mute, unmutedmic exactly by a signal or silence tick that
\* finds it mute; volumeState changes only from mute or to mute, with these
\* events; mutedmic and unmutedmic alternate.
C18_MicTransitions ==
  [][ /\ mic' # "broken"
      /\ ticks' = ticks => ad'.volumeState = ad.volumeState
      /\ (ticks' # ticks /\ ad.recordingEnabled) =>
           LET lv == LevelOfVolume(meter.volume, ad.muteVolume, ad.speakingMinVolume)
               wasMute == ad.volumeState = "mute"
               isMute == ad'.volumeState = "mute"
           IN /\ CountType(Types(emitted'), "mutedmic") = (IF lv = "mute" /\ ~wasMute THEN 1 ELSE 0)
              /\ CountType(Types(emitted'), "unmutedmic") = (IF lv # "mute" /\ wasMute THEN 1 ELSE 0)
              /\ ad'.volumeState # ad.volumeState => wasMute # isMute
              /\ isMute <=> lv = "mute" ]_vars

\* the microphone is reported closed after it was reported open
W_C18 ==
  /\ Has(emitted, "mutedmic")
  /\ mic = "mutedmic"
  /\ ad.volumeState = "mute"

\* C19 as stated: whatever the calls of start() and stop(), at most one
\* timer is pending.
C19_OneTimerPending == Len(timers) <= 1

\* C20: while speechStarted is true, speechVolumesList is not empty, has
\* one entry for each signal tick since the segment was opened, and every
\* entry is above speakingMinVolume; so the list averaged when the segment
\* is closed is not empty and its mean is above speakingMinVolume.
C20_SegmentVolumes ==
  LET list == ad.speechVolumesList
      above == /\ list # << >>
               /\ \A i \in 1..Len(list) : Gt(list[i], ad.speakingMinVolume)
               /\ SumSeq(list) > ad.speakingMinVolume * Len(list)
  IN /\ ad.speechStarted => (above /\ Len(list) = segSignals)
     /\ Verdicts # << >> => above

\* the second segment of a run, two signal ticks and a silence tick old
W_C20 ==
  /\ ad.speechStarted
  /\ segSignals = 2
  /\ ad.silenceItems = 1
  /\ ad.speechstartTime > ad.timeoutMilliSecs

====
